---- MODULE Spec2Model ----
(***************************************************************************)
(* Model of the scan pipeline of nagelea/oat1:                             *)
(*   scripts/update_scan_history.py   fingerprint, history store, summary  *)
(*   scripts/generate_reports.py      report summary and risk level        *)
(*   scripts/send_bark_notification.py  notifier main                      *)
(*   scripts/github_search.py         the paginated search loop            *)
(* Strings that the code orders (repository full_name, file path) are      *)
(* modelled by naturals in their lexicographic order; timestamps that are  *)
(* only compared for equality are TLA+ strings.                            *)
(***************************************************************************)
EXTENDS Integers, Sequences, FiniteSets, TLC

VARIABLES
    \* --- fingerprint engine and risk rule, applied to drawn inputs
    findings,       \* a results list as the search step produced it
    other,          \* a second results list derived from findings
    edit,           \* how other was derived from findings
    digests,        \* <<calculate_results_hash(findings), calculate_results_hash(other)>> once computed
    summaries,      \* the summaries computed for findings, by producer
    \* --- files of a checkout
    rawFile,        \* reports/raw_data.json
    histFile,       \* .github/scan_history/scan_history.json
    hashFile,       \* .github/scan_history/last_scan_hash.txt
    trendFile,      \* .github/scan_history/trend_report.json
    \* --- a run of update_scan_history.py
    pc,             \* position of the run
    history_data,   \* the loaded and updated history (local of update_scan_history)
    hist_before,    \* history variable: scan_history.json as the current or last run found it
    ret,            \* how the last update_scan_history ended: "True", "False", "killed"; "none" before
    now,            \* the clock: datetime.now()
    runs,           \* scans made so far
    verdict,        \* the change detector's classification of the current scan
    \* --- a run of send_bark_notification.py
    bark_key,       \* whether BARK_KEY is set
    force_notify,   \* INPUT_FORCE_NOTIFY == 'true'
    checkFile,      \* reports/new_findings_check.json
    requests,       \* the HTTP requests made, in order
    exit_code,      \* the exit status of main: "0" or "1"; "none" before it ends
    notification_log, \* reports/notification_log.json
    latest_files,   \* what _get_latest_files_info returned
    \* --- a call of GitHubSearcher.search_github_code
    search_pc,      \* position in search_github_code
    max_results,    \* self.max_results, from MAX_RESULTS
    search_results, \* the local results: the page each collected file came from
    page,           \* the local page
    items,          \* items of the current response not yet looked at
    total_found,    \* the local total_found
    status,         \* status of the last response: "none" before the first
    rate_limited    \* history variable: some request of this call was answered 403

vars == <<findings, other, edit, digests, summaries,
          rawFile, histFile, hashFile, trendFile,
          pc, history_data, hist_before, ret, now, runs, verdict,
          bark_key, force_notify, checkFile, requests, exit_code, notification_log,
          latest_files,
          search_pc, max_results, search_results, page, items, total_found, status,
          rate_limited>>

pureVars == <<findings, other, edit, digests, summaries>>
fileVars == <<rawFile, histFile, hashFile, trendFile>>
runVars == <<pc, history_data, hist_before, ret, now, runs, verdict>>
notifyVars == <<bark_key, force_notify, checkFile, requests, exit_code, notification_log,
                latest_files>>
searchVars == <<search_pc, max_results, search_results, page, items, total_found,
                status, rate_limited>>

(***************************************************************************)
(* Values                                                                  *)
(***************************************************************************)
None == [none |-> TRUE]               \* Python's None
EmptyDict == <<>>                     \* Python's {}
Absent == [absent |-> TRUE]           \* a file that does not exist
Garbage == [garbage |-> TRUE]         \* a file whose content json.load rejects

\* dict.get(key, default)
Get(d, k, default) == IF k \in DOMAIN d THEN d[k] ELSE default

\* d[k] = v on a dict
With(d, k, v) == [x \in DOMAIN d \cup {k} |-> IF x = k THEN v ELSE d[x]]

\* open(...) + json.load(...) of a file written in one piece: the document, or an exception
JsonFile(data) == [json |-> data]
Loads(file) == "json" \in DOMAIN file

(***************************************************************************)
(* Findings (github_search.py, get_file_details)                           *)
(***************************************************************************)
MaxFindings == 2          \* longest results list drawn
MaxMatch == 6             \* largest match_count drawn for the risk rule

RepoNames == {1, 2}
Paths == {1, 2}
Times == {"", "t1"}

\* time_info.last_commit: {} when the commits call returned nothing
LastCommits == {EmptyDict} \cup {[last_modified |-> t] : t \in Times}

Finding(full_name, private, path, match_count, last_commit) ==
    [repository |-> [full_name |-> full_name, private |-> private],
     file |-> [path |-> path, match_count |-> match_count],
     time_info |-> [last_commit |-> last_commit]]

FindingsOver(repos, privates, paths, matches, last_commits) ==
    {Finding(r, p, f, m, lc) :
        r \in repos, p \in privates, f \in paths, m \in matches, lc \in last_commits}

SeqsUpTo(S, n) == UNION {[1..k -> S] : k \in 0..n}

\* save_raw_data: the document written to reports/raw_data.json
RawData(results, scan_time) ==
    [scan_time |-> scan_time,
     total_found |-> Len(results),
     analyzed_files |-> Len(results),
     results |-> results]

(***************************************************************************)
(* Fingerprint engine: calculate_results_hash                              *)
(***************************************************************************)
\* key_info with the match count left out of the hashed key
key_info_without_matches(result) ==
    [repo |-> result.repository.full_name,
     file |-> result.file.path,
     matches |-> 0,
     last_modified |-> Get(Get(Get(result, "time_info", EmptyDict),
                               "last_commit", EmptyDict),
                           "last_modified", "")]

key_info(result) ==
    [repo |-> result.repository.full_name,
     file |-> result.file.path,
     matches |-> result.file.match_count,
     last_modified |-> Get(Get(Get(result, "time_info", EmptyDict),
                               "last_commit", EmptyDict),
                           "last_modified", "")]

\* the sort key of key_data.sort: (x['repo'], x['file']), compared as a tuple
SortKeyLE(a, b) == a.repo < b.repo \/ (a.repo = b.repo /\ a.file <= b.file)

\* list.sort is stable: an element goes after every element whose key is not greater
InsertSorted(x, sorted) ==
    LET n == Cardinality({i \in 1..Len(sorted) : SortKeyLE(sorted[i], x)})
    IN  SubSeq(sorted, 1, n) \o <<x>> \o SubSeq(sorted, n + 1, Len(sorted))

RECURSIVE SortByRepoFile(_)
SortByRepoFile(key_data) ==
    IF key_data = <<>> THEN <<>>
    ELSE InsertSorted(key_data[Len(key_data)],
                      SortByRepoFile(SubSeq(key_data, 1, Len(key_data) - 1)))

\* json.dumps(key_data, sort_keys=True): each record's values in key order
\* file, last_modified, matches, repo
Dumps(key_data) ==
    [i \in 1..Len(key_data) |->
        <<key_data[i].file, key_data[i].last_modified,
          key_data[i].matches, key_data[i].repo>>]

\* hashlib.sha256(content).hexdigest(), taken as collision-free
Sha256(content) == [sha256 |-> content]

\* a result whose required keys calculate_results_hash subscripts, and whose
\* time_info and last_commit, when present, are dicts: None has no get
HasKeyFields(result) ==
    /\ "repository" \in DOMAIN result
    /\ "full_name" \in DOMAIN result.repository
    /\ "file" \in DOMAIN result
    /\ {"path", "match_count"} \subseteq DOMAIN result.file
    /\ Get(result, "time_info", EmptyDict) # None
    /\ Get(Get(result, "time_info", EmptyDict), "last_commit", EmptyDict) # None

\* calculate_results_hash that hashes the time of the scan along with the keys
calculate_results_hash_with_scan_time(results_file) ==
    IF ~Loads(results_file) THEN None
    ELSE LET results == Get(results_file.json, "results", <<>>)
         IN  IF \E i \in 1..Len(results) : ~HasKeyFields(results[i]) THEN None
             ELSE Sha256(<<Get(results_file.json, "scan_time", 0),
                           Dumps(SortByRepoFile(
                              [i \in 1..Len(results) |-> key_info(results[i])]))>>)

\* calculate_results_hash that takes an empty results list for a failure
calculate_results_hash_needing_results(results_file) ==
    IF ~Loads(results_file) THEN None
    ELSE LET results == Get(results_file.json, "results", <<>>)
         IN  IF results = <<>> THEN None
             ELSE IF \E i \in 1..Len(results) : ~HasKeyFields(results[i]) THEN None
             ELSE Sha256(Dumps(SortByRepoFile(
                     [i \in 1..Len(results) |-> key_info(results[i])])))

\* calculate_results_hash that digests unusable raw data as an empty results list
calculate_results_hash_lenient(results_file) ==
    IF ~Loads(results_file) THEN Sha256(<<>>)
    ELSE LET results == Get(results_file.json, "results", <<>>)
         IN  IF \E i \in 1..Len(results) : ~HasKeyFields(results[i]) THEN Sha256(<<>>)
             ELSE Sha256(Dumps(SortByRepoFile(
                     [i \in 1..Len(results) |-> key_info(results[i])])))

calculate_results_hash(results_file) ==
    IF ~Loads(results_file) THEN None
    ELSE LET results == Get(results_file.json, "results", <<>>)
         IN  IF \E i \in 1..Len(results) : ~HasKeyFields(results[i]) THEN None
             ELSE Sha256(Dumps(SortByRepoFile(
                     [i \in 1..Len(results) |-> key_info(results[i])])))

(***************************************************************************)
(* Values every specification gives the state it does not use              *)
(***************************************************************************)
PureIdle ==
    /\ findings = <<>> /\ other = <<>> /\ edit = "none"
    /\ digests = <<>> /\ summaries = <<>>
FilesIdle ==
    /\ rawFile = Absent /\ histFile = Absent
    /\ hashFile = Absent /\ trendFile = Absent
RunIdle ==
    /\ pc = "idle" /\ history_data = None /\ hist_before = Absent
    /\ ret = "none" /\ now = 0 /\ runs = 0 /\ verdict = "none"
NotifyIdle ==
    /\ bark_key = TRUE /\ force_notify = FALSE /\ checkFile = Absent
    /\ requests = <<>>
    /\ exit_code = "none" /\ notification_log = Absent
    /\ latest_files = <<>>
SearchIdle ==
    /\ search_pc = "idle" /\ max_results = 0 /\ search_results = <<>>
    /\ page = 0 /\ items = 0 /\ total_found = 0
    /\ status = "none" /\ rate_limited = FALSE

(***************************************************************************)
(* SpecFingerprint: calculate_results_hash applied to a results list and   *)
(* to a reordering or a one-field change of it                             *)
(***************************************************************************)
FingerprintInputs ==
    SeqsUpTo(FindingsOver(RepoNames, {FALSE}, Paths, {1, 2},
                          {EmptyDict, [last_modified |-> "t1"]}),
             MaxFindings)

InitFingerprint ==
    /\ findings \in FingerprintInputs
    /\ other = findings /\ edit = "none" /\ digests = <<>> /\ summaries = <<>>
    /\ FilesIdle /\ RunIdle /\ NotifyIdle /\ SearchIdle

\* the digests of the two lists, each saved by a scan of its own
BothDigests(a, b) ==
    <<calculate_results_hash(JsonFile(RawData(a, 1))),
      calculate_results_hash(JsonFile(RawData(b, 2)))>>

Fingerprint ==
    /\ digests = <<>>
    /\ digests' = BothDigests(findings, other)
    /\ UNCHANGED <<findings, other, edit, summaries>>
    /\ UNCHANGED <<fileVars, runVars, notifyVars, searchVars>>

\* the search API returns the same results in another order
Reorder(i) ==
    /\ edit \in {"none", "permuted"}
    /\ i \in 1..(Len(other) - 1)
    /\ other' = [other EXCEPT ![i] = other[i + 1], ![i + 1] = other[i]]
    /\ other' # other
    /\ edit' = "permuted"
    /\ digests' = <<>>
    /\ UNCHANGED <<findings, summaries>>
    /\ UNCHANGED <<fileVars, runVars, notifyVars, searchVars>>

Fields == {"full_name", "private", "path", "match_count", "last_modified"}

WithField(result, field, v) ==
    CASE field = "full_name" -> [result EXCEPT !.repository.full_name = v]
      [] field = "private" -> [result EXCEPT !.repository.private = v]
      [] field = "path" -> [result EXCEPT !.file.path = v]
      [] field = "match_count" -> [result EXCEPT !.file.match_count = v]
      [] field = "last_modified" -> [result EXCEPT !.time_info.last_commit = v]

FieldValues(field) ==
    CASE field = "full_name" -> RepoNames
      [] field = "private" -> BOOLEAN
      [] field = "path" -> Paths
      [] field = "match_count" -> {1, 2}
      [] field = "last_modified" -> LastCommits

\* one field of one finding differs
ChangeField(i, field) ==
    /\ edit = "none" /\ digests = <<>>
    /\ i \in 1..Len(findings)
    /\ \E v \in FieldValues(field) :
          /\ WithField(findings[i], field, v) # findings[i]
          /\ other' = [findings EXCEPT ![i] = WithField(findings[i], field, v)]
    /\ edit' = field
    /\ UNCHANGED <<findings, digests, summaries>>
    /\ UNCHANGED <<fileVars, runVars, notifyVars, searchVars>>

\* JSON null where a timestamp string is expected; json.dumps writes it as
\* null, which is not the empty string
NullTime == "null"

TimeEdits == {"no_time_info", "no_last_commit", "no_last_modified",
              "null_time_info", "null_last_commit", "null_last_modified"}

\* a result with its time_info, last_commit or last_modified absent or null
WithoutTime(result, how) ==
    CASE how = "no_time_info" ->
            [k \in DOMAIN result \ {"time_info"} |-> result[k]]
      [] how = "no_last_commit" -> [result EXCEPT !.time_info = EmptyDict]
      [] how = "no_last_modified" -> [result EXCEPT !.time_info.last_commit = EmptyDict]
      [] how = "null_time_info" -> [result EXCEPT !.time_info = None]
      [] how = "null_last_commit" -> [result EXCEPT !.time_info.last_commit = None]
      [] how = "null_last_modified" ->
            [result EXCEPT !.time_info.last_commit = [last_modified |-> NullTime]]

\* one finding, once with last_modified = '' and once with its time absent or null
LoseTime(i, how) ==
    /\ edit = "none" /\ digests = <<>>
    /\ i \in 1..Len(findings)
    /\ findings' = [findings EXCEPT
                       ![i] = WithField(findings[i], "last_modified",
                                        [last_modified |-> ""])]
    /\ other' = [findings EXCEPT ![i] = WithoutTime(findings[i], how)]
    /\ edit' = how
    /\ UNCHANGED <<digests, summaries>>
    /\ UNCHANGED <<fileVars, runVars, notifyVars, searchVars>>

\* fields of a result that get_file_details fills and the fingerprint key leaves out
ExtraFields == {"found_at", "stars", "change_info", "commit_history"}

\* a result as a later scan of the same content reports it
WithExtra(result, extras) ==
    LET found == IF "found_at" \in extras THEN With(result, "found_at", 2) ELSE result
        starred == IF "stars" \in extras
                   THEN [found EXCEPT !.repository = With(@, "stars", 5)] ELSE found
        changed == IF "change_info" \in extras
                   THEN With(starred, "change_info", [recent_changes |-> TRUE])
                   ELSE starred
    IN  IF "commit_history" \in extras
        THEN [changed EXCEPT !.time_info = With(@, "commit_history", <<"c1">>)]
        ELSE changed

\* the same content scanned again later: only fields outside the key differ
Rescan(extras) ==
    /\ edit = "none" /\ digests = <<>>
    /\ extras # {}
    /\ other' = [i \in 1..Len(findings) |-> WithExtra(findings[i], extras)]
    /\ edit' = "rescanned"
    /\ UNCHANGED <<findings, digests, summaries>>
    /\ UNCHANGED <<fileVars, runVars, notifyVars, searchVars>>

NextFingerprint ==
    \/ Fingerprint
    \/ \E i \in 1..MaxFindings : Reorder(i)
    \/ \E i \in 1..MaxFindings, field \in Fields : ChangeField(i, field)
    \/ \E i \in 1..MaxFindings, how \in TimeEdits : LoseTime(i, how)
    \/ \E extras \in SUBSET ExtraFields : Rescan(extras)

SpecFingerprint == InitFingerprint /\ [][NextFingerprint]_vars

\* the position of the changed finding, for edit in Fields
ChangedAt == CHOOSE i \in 1..Len(findings) : findings[i] # other[i]

(* C1: a results list and any permutation of it get the same digest, also
   when two findings share their (repository full_name, file path). *)
C1_OrderIndependence ==
    (edit \in {"none", "permuted"} /\ digests # <<>>) => digests[1] = digests[2]

\* the failing case: two findings of one file that differ in a hashed field
C1_DuplicatePairReordered ==
    /\ edit = "permuted" /\ digests # <<>>
    /\ \E i, j \in 1..Len(findings) :
          /\ i # j
          /\ findings[i].repository.full_name = findings[j].repository.full_name
          /\ findings[i].file.path = findings[j].file.path
    /\ digests[1] # digests[2]

(* C4 as claimed: changing any single field of one finding, the repository's
   private flag included, changes the digest. *)
C4_AnyFieldSensitive ==
    (edit \in Fields /\ digests # <<>>) => digests[1] # digests[2]

(* C4 as amended: changing the full_name, the path, the match_count or the
   last_modified of one finding (a missing last_modified counting as the empty
   string) changes the digest; changing only the private flag leaves it as it
   was. *)
C4_KeyFieldSensitive ==
    (edit \in Fields /\ digests # <<>>) =>
        LET changed == key_info(findings[ChangedAt]) # key_info(other[ChangedAt])
        IN  /\ edit \in {"full_name", "path", "match_count"} => changed
            /\ edit = "private" => ~changed
            /\ changed <=> digests[1] # digests[2]

C4_Witness ==
    /\ edit = "match_count" /\ digests # <<>>
    /\ Len(findings) = 2 /\ ChangedAt = 1
    /\ digests[1] # digests[2]

(***************************************************************************)
(* Scan summary and risk level                                             *)
(***************************************************************************)(* C24: two result lists whose findings agree pairwise on repository
   full_name, file path, match_count and last_modified get the same digest
   from calculate_results_hash, whatever their other fields (found_at,
   scan_time, stars, commit history, change_info) are: scanning unchanged
   content again at a later time yields the same digest. *)
C24_KeyFieldsOnly ==
    (edit = "rescanned" /\ digests # <<>>) =>
        /\ \A i \in 1..Len(findings) : key_info(findings[i]) = key_info(other[i])
        /\ digests[1] # None
        /\ digests[1] = digests[2]

\* two findings, both reported with other found_at, stars, change_info and
\* commit history by the second scan
C24_Witness ==
    /\ edit = "rescanned" /\ digests # <<>>
    /\ Len(findings) = 2
    /\ \A i \in 1..2 :
          /\ other[i] # findings[i]
          /\ {"found_at", "change_info"} \subseteq DOMAIN other[i]
          /\ "stars" \in DOMAIN other[i].repository
          /\ "commit_history" \in DOMAIN other[i].time_info
    /\ digests[1] = digests[2]

(* C16: for a finding whose time_info, last_commit or last_modified is absent
   or null, the last_modified component of the fingerprint key is the empty
   string, so calculate_results_hash gives it the digest of the same finding
   with last_modified = ''. *)
C16_MissingTimeNormalized ==
    (edit \in TimeEdits /\ digests # <<>>) =>
        /\ digests[2] # None
        /\ digests[1] = digests[2]

\* the failing case: last_modified is null; the key keeps the null and the
\* digest is not the one of the empty string
C16_NullKept ==
    /\ edit = "null_last_modified" /\ digests # <<>>
    /\ digests[1] # None /\ digests[2] # None
    /\ digests[1] # digests[2]


RECURSIVE SumSeq(_)
SumSeq(s) == IF s = <<>> THEN 0 ELSE s[1] + SumSeq(Tail(s))

\* the risk rule with the CRITICAL threshold off by one
scan_risk_level_ge10(public_files, total_matches, total_files) ==
    IF public_files > 0
    THEN IF total_matches >= 10 THEN "CRITICAL"
         ELSE IF total_matches > 5 THEN "HIGH"
         ELSE "MEDIUM"
    ELSE IF total_files > 0 THEN "LOW"
    ELSE "NONE"

\* update_scan_history.py, the risk rule inside create_scan_summary
scan_risk_level(public_files, total_matches, total_files) ==
    IF public_files > 0
    THEN IF total_matches > 10 THEN "CRITICAL"
         ELSE IF total_matches > 5 THEN "HIGH"
         ELSE "MEDIUM"
    ELSE IF total_files > 0 THEN "LOW"
    ELSE "NONE"

\* create_scan_summary that counts private repositories where it should count
\* private files
create_scan_summary_counting_repositories(current_data) ==
    LET results == Get(current_data, "results", <<>>)
        n == Len(results)
        public_files == Cardinality({i \in 1..n : ~results[i].repository.private})
        total_matches == SumSeq([i \in 1..n |-> results[i].file.match_count])
        repositories == {results[i].repository.full_name : i \in 1..n}
    IN  IF results = <<>>
        THEN [total_files |-> 0, public_files |-> 0, private_files |-> 0,
              total_matches |-> 0, repositories |-> {}, risk_level |-> "NONE"]
        ELSE [total_files |-> n,
              public_files |-> public_files,
              private_files |-> Cardinality({results[i].repository.full_name :
                                   i \in {j \in 1..n : results[j].repository.private}}),
              total_matches |-> total_matches,
              repositories |-> repositories,
              repository_count |-> Cardinality(repositories),
              risk_level |-> scan_risk_level(public_files, total_matches, n)]

\* repositories is list(set(...)): its order is not defined, so it is kept as a set
create_scan_summary(current_data) ==
    LET results == Get(current_data, "results", <<>>)
        n == Len(results)
        public_files == Cardinality({i \in 1..n : ~results[i].repository.private})
        total_matches == SumSeq([i \in 1..n |-> results[i].file.match_count])
        repositories == {results[i].repository.full_name : i \in 1..n}
    IN  IF results = <<>>
        THEN [total_files |-> 0, public_files |-> 0, private_files |-> 0,
              total_matches |-> 0, repositories |-> {}, risk_level |-> "NONE"]
        ELSE [total_files |-> n,
              public_files |-> public_files,
              private_files |-> n - public_files,
              total_matches |-> total_matches,
              repositories |-> repositories,
              repository_count |-> Cardinality(repositories),
              risk_level |-> scan_risk_level(public_files, total_matches, n)]

\* generate_reports.py, ReportGenerator._calculate_risk_level
calculate_risk_level(public_repos, total_matches) ==
    IF public_repos > 0
    THEN IF total_matches > 10 THEN "CRITICAL"
         ELSE IF total_matches > 5 THEN "HIGH"
         ELSE "MEDIUM"
    ELSE IF total_matches > 0 THEN "LOW"
    ELSE "NONE"

\* generate_reports.py, ReportGenerator._calculate_summary (the counts and the
\* risk level; the age, author, extension and language statistics are left out)
calculate_summary(results) ==
    LET n == Len(results)
        public_repos == Cardinality({i \in 1..n : ~results[i].repository.private})
        private_repos == Cardinality({i \in 1..n : results[i].repository.private})
        total_matches == SumSeq([i \in 1..n |-> results[i].file.match_count])
        repositories == {results[i].repository.full_name : i \in 1..n}
    IN  IF results = <<>> THEN EmptyDict
        ELSE [public_repos |-> public_repos,
              private_repos |-> private_repos,
              total_matches |-> total_matches,
              repositories |-> repositories,
              repository_count |-> Cardinality(repositories),
              risk_level |-> calculate_risk_level(public_repos, total_matches)]

\* create_summary.py reads the report summary's risk level with this default
ReportedRisk(summary) == Get(summary, "risk_level", "UNKNOWN")

(***************************************************************************)
(* SpecRisk: both summaries computed for one results list                  *)
(***************************************************************************)
RiskInputs ==
    SeqsUpTo(FindingsOver(RepoNames, BOOLEAN, {1}, 0..MaxMatch, {EmptyDict}),
             MaxFindings)

InitRisk ==
    /\ findings \in RiskInputs
    /\ other = findings /\ edit = "none" /\ digests = <<>> /\ summaries = <<>>
    /\ FilesIdle /\ RunIdle /\ NotifyIdle /\ SearchIdle


\* update_scan_history builds the history entry's summary
CreateScanSummary ==
    /\ "history" \notin DOMAIN summaries
    /\ summaries' = With(summaries, "history",
                         create_scan_summary(RawData(findings, 1)))
    /\ UNCHANGED <<findings, other, edit, digests>>
    /\ UNCHANGED <<fileVars, runVars, notifyVars, searchVars>>

\* generate_detailed_json_report / generate_summary_report build the report's summary
CalculateSummary ==
    /\ "report" \notin DOMAIN summaries
    /\ summaries' = With(summaries, "report", calculate_summary(findings))
    /\ UNCHANGED <<findings, other, edit, digests>>
    /\ UNCHANGED <<fileVars, runVars, notifyVars, searchVars>>

NextRisk == CreateScanSummary \/ CalculateSummary

SpecRisk == InitRisk /\ [][NextRisk]_vars

\* the counts of a results list, taken from the list itself
PublicCount(results) ==
    Cardinality({i \in DOMAIN results : results[i].repository.private = FALSE})
RECURSIVE MatchTotalOver(_, _)
MatchTotalOver(results, idx) ==
    IF idx = {} THEN 0
    ELSE LET i == CHOOSE j \in idx : TRUE
         IN  results[i].file.match_count + MatchTotalOver(results, idx \ {i})
MatchTotal(results) == MatchTotalOver(results, DOMAIN results)

(* C7: create_scan_summary sets risk_level to CRITICAL when public_files > 0
   and total_matches > 10, HIGH when public_files > 0 and 5 < total_matches
   <= 10, MEDIUM when public_files > 0 and total_matches <= 5, LOW when
   public_files = 0 and total_files > 0, and NONE otherwise. *)
C7_RiskRule ==
    "history" \in DOMAIN summaries =>
        LET risk == summaries.history.risk_level
            pub == PublicCount(findings)
            m == MatchTotal(findings)
        IN  risk = CASE pub > 0 /\ m > 10 -> "CRITICAL"
                     [] pub > 0 /\ 5 < m /\ m <= 10 -> "HIGH"
                     [] pub > 0 /\ m <= 5 -> "MEDIUM"
                     [] pub = 0 /\ Len(findings) > 0 -> "LOW"
                     [] OTHER -> "NONE"

\* a HIGH summary at the upper edge of its range: ten matches, one file public
C7_Witness ==
    /\ "history" \in DOMAIN summaries
    /\ summaries.history.risk_level = "HIGH"
    /\ summaries.history.total_matches = 10
    /\ summaries.history.public_files = 1
    /\ summaries.history.private_files = 1

(* C26: for every list of findings the summary made by create_scan_summary
   has public_files + private_files = total_files = number of findings,
   total_matches = sum of the findings' match_count, repositories without
   duplicates holding exactly the full_names that occur, and at most
   total_files repositories. *)
C26_SummaryConsistent ==
    "history" \in DOMAIN summaries =>
        LET summary == summaries.history
            names == {findings[i].repository.full_name : i \in DOMAIN findings}
        IN  /\ summary.public_files + summary.private_files = summary.total_files
            /\ summary.total_files = Len(findings)
            /\ summary.public_files = PublicCount(findings)
            /\ summary.total_matches = MatchTotal(findings)
            /\ summary.repositories = names
            /\ Get(summary, "repository_count", 0) = Cardinality(names)
            /\ Cardinality(summary.repositories) <= summary.total_files

\* two private files of one repository, with matches: fewer repositories than files
C26_Witness ==
    /\ "history" \in DOMAIN summaries
    /\ Len(findings) = 2
    /\ findings[1].repository = findings[2].repository
    /\ summaries.history.private_files = 2
    /\ summaries.history.repository_count = 1
    /\ summaries.history.total_matches > 1

(* C8: for every results list, the empty one and lists of private files with
   zero matches included, the risk level in the report generator's summary
   equals the risk level create_scan_summary stores. *)
C8_RiskAgreement ==
    {"history", "report"} \subseteq DOMAIN summaries =>
        ReportedRisk(summaries.report) = summaries.history.risk_level

\* the failing case: private files only, none with a match
C8_PrivateNoMatches ==
    /\ {"history", "report"} \subseteq DOMAIN summaries
    /\ findings # <<>>
    /\ summaries.history.risk_level = "LOW"
    /\ ReportedRisk(summaries.report) = "NONE"

(***************************************************************************)
(* The history file as text: what json.dump writes and json.load reads     *)
(***************************************************************************)
HistoryLimit == 50        \* scans kept in the history
TrendWindow == 7          \* scans a trend report looks at

File(text) == [text |-> text]
EmptyFile == File(<<>>)

ObjOpen == [tok |-> "{"]
ObjClose == [tok |-> "}"]
ArrOpen == [tok |-> "["]
ArrClose == [tok |-> "]"]
KeyTok(k) == [key |-> k]
NumTok(n) == [num |-> n]
EntryTok(e) == [entry |-> e]      \* one history entry, written in one piece

\* the keys of a history document, in the order json.dump writes them
DumpMember(doc, k) ==
    IF k \notin DOMAIN doc THEN <<>>
    ELSE IF k = "scans"
    THEN <<KeyTok(k), ArrOpen>>
         \o [i \in 1..Len(doc[k]) |-> EntryTok(doc[k][i])]
         \o <<ArrClose>>
    ELSE <<KeyTok(k), NumTok(doc[k])>>

\* json.dump(history_data, f, indent=2)
Dump(doc) ==
    <<ObjOpen>> \o DumpMember(doc, "created_at") \o DumpMember(doc, "last_updated")
      \o DumpMember(doc, "total_scans") \o DumpMember(doc, "scans") \o <<ObjClose>>

ParseError == [error |-> "JSONDecodeError"]

RECURSIVE ParseMembers(_, _)
ParseMembers(s, doc) ==
    IF s = <<>> THEN doc
    ELSE IF Len(s) < 2 \/ "key" \notin DOMAIN s[1] THEN ParseError
    ELSE IF "num" \in DOMAIN s[2]
    THEN ParseMembers(SubSeq(s, 3, Len(s)), With(doc, s[1].key, s[2].num))
    ELSE IF s[2] = ArrOpen
    THEN LET closes == {j \in 3..Len(s) : s[j] = ArrClose}
         IN  IF closes = {} THEN ParseError
             ELSE LET j == CHOOSE c \in closes : \A d \in closes : c <= d
                  IN  IF \E i \in 3..(j - 1) : "entry" \notin DOMAIN s[i]
                      THEN ParseError
                      ELSE ParseMembers(SubSeq(s, j + 1, Len(s)),
                                        With(doc, s[1].key,
                                             [i \in 1..(j - 3) |-> s[i + 2].entry]))
    ELSE ParseError

\* json.load(f): the document, or ParseError
Parse(text) ==
    IF Len(text) < 2 \/ text[1] # ObjOpen \/ text[Len(text)] # ObjClose
    THEN ParseError
    ELSE ParseMembers(SubSeq(text, 2, Len(text) - 1), EmptyDict)

(***************************************************************************)
(* History store: load_scan_history, the update, generate_trend_report     *)
(***************************************************************************)
FreshHistory(t) ==
    [created_at |-> t, last_updated |-> t, total_scans |-> 0, scans |-> <<>>]

\* load_scan_history that lets a decode error escape
load_scan_history_raising(history_file, t) ==
    IF history_file = Absent THEN FreshHistory(t)
    ELSE Parse(history_file.text)

load_scan_history(history_file, t) ==
    IF history_file = Absent THEN FreshHistory(t)               \* FileNotFoundError
    ELSE IF Parse(history_file.text) = ParseError THEN FreshHistory(t)   \* Exception
    ELSE Parse(history_file.text)

\* reports/raw_data.json read again by update_scan_history; {} when it cannot be read
current_data_of(raw_file) == IF Loads(raw_file) THEN raw_file.json ELSE EmptyDict

\* the history entry of a run (search_pattern, search_scope and file_extensions,
\* copied from the raw data, are left out)
history_entry(current_data, current_hash, t) ==
    [scan_time |-> Get(current_data, "scan_time", t),
     hash |-> current_hash,
     total_found |-> Get(current_data, "total_found", 0),
     analyzed_files |-> Get(current_data, "analyzed_files", 0),
     summary |-> create_scan_summary(current_data)]

\* scans[-n:]
LastN(scans, n) ==
    IF Len(scans) > n THEN SubSeq(scans, Len(scans) - n + 1, Len(scans)) ELSE scans

\* the append with the slice taken from the wrong end: scans[:50]
append_entry_keep_oldest(history, entry, t) ==
    LET appended == Append(history.scans, entry)
        kept == IF Len(appended) > HistoryLimit
                THEN SubSeq(appended, 1, HistoryLimit) ELSE appended
    IN  [With(With(history, "last_updated", t), "total_scans", Len(kept))
            EXCEPT !.scans = kept]

\* the append that puts the new entry first
append_entry_in_front(history, entry, t) ==
    LET appended == <<entry>> \o history.scans
        kept == IF Len(appended) > HistoryLimit
                THEN LastN(appended, HistoryLimit) ELSE appended
    IN  [With(With(history, "last_updated", t), "total_scans", Len(kept))
            EXCEPT !.scans = kept]

\* the update that overwrites the latest entry instead of appending
append_entry_replacing_last(history, entry, t) ==
    LET kept == IF history.scans = <<>> THEN <<entry>>
                ELSE [history.scans EXCEPT ![Len(history.scans)] = entry]
    IN  [With(With(history, "last_updated", t), "total_scans", Len(kept))
            EXCEPT !.scans = kept]

\* the update that counts the scans before it drops the oldest
append_entry_counting_early(history, entry, t) ==
    LET appended == Append(history.scans, entry)
        kept == IF Len(appended) > HistoryLimit
                THEN LastN(appended, HistoryLimit) ELSE appended
    IN  [With(With(history, "last_updated", t), "total_scans", Len(appended))
            EXCEPT !.scans = kept]

\* update_scan_history: append, keep the latest 50, refresh the statistics
append_entry(history, entry, t) ==
    LET appended == Append(history.scans, entry)
        kept == IF Len(appended) > HistoryLimit
                THEN LastN(appended, HistoryLimit) ELSE appended
    IN  [With(With(history, "last_updated", t), "total_scans", Len(kept))
            EXCEPT !.scans = kept]

Max(S) == CHOOSE x \in S : \A y \in S : y <= x
Min(S) == CHOOSE x \in S : \A y \in S : x <= y
Range(s) == {s[i] : i \in DOMAIN s}
\* sum(xs) / len(xs), kept as a fraction
Mean(s) == [sum |-> SumSeq(s), len |-> Len(s)]

\* the trend document with the changes taken from the window's first entry to its last
trend_data_across_window(scans) ==
    LET recent_scans == IF Len(scans) >= TrendWindow THEN LastN(scans, TrendWindow)
                        ELSE scans
        n == Len(recent_scans)
        total_files == [i \in 1..n |-> recent_scans[i].summary.total_files]
        public_files == [i \in 1..n |-> recent_scans[i].summary.public_files]
        matches == [i \in 1..n |-> recent_scans[i].summary.total_matches]
        risk_levels == [i \in 1..n |-> recent_scans[i].summary.risk_level]
    IN  [period |-> n,
         first_scan |-> recent_scans[1].scan_time,
         last_scan |-> recent_scans[n].scan_time,
         trends |-> [total_files |-> total_files, public_files |-> public_files,
                     total_matches |-> matches, risk_levels |-> risk_levels],
         statistics |->
            [avg_total_files |-> Mean(total_files),
             max_total_files |-> Max(Range(total_files)),
             min_total_files |-> Min(Range(total_files)),
             avg_public_files |-> Mean(public_files),
             max_public_files |-> Max(Range(public_files)),
             avg_matches |-> Mean(matches),
             max_matches |-> Max(Range(matches)),
             latest_vs_previous |->
                [total_files_change |-> total_files[n] - total_files[1],
                 public_files_change |-> public_files[n] - public_files[1],
                 matches_change |-> matches[n] - matches[1]]],
         risk_distribution |->
            [r \in Range(risk_levels) |->
                Cardinality({i \in 1..n : risk_levels[i] = r})]]

\* the document generate_trend_report writes for a history of two or more scans
trend_data(scans) ==
    LET recent_scans == IF Len(scans) >= TrendWindow THEN LastN(scans, TrendWindow)
                        ELSE scans
        n == Len(recent_scans)
        total_files == [i \in 1..n |-> recent_scans[i].summary.total_files]
        public_files == [i \in 1..n |-> recent_scans[i].summary.public_files]
        matches == [i \in 1..n |-> recent_scans[i].summary.total_matches]
        risk_levels == [i \in 1..n |-> recent_scans[i].summary.risk_level]
    IN  [period |-> n,
         first_scan |-> recent_scans[1].scan_time,
         last_scan |-> recent_scans[n].scan_time,
         trends |-> [total_files |-> total_files, public_files |-> public_files,
                     total_matches |-> matches, risk_levels |-> risk_levels],
         statistics |->
            [avg_total_files |-> Mean(total_files),
             max_total_files |-> Max(Range(total_files)),
             min_total_files |-> Min(Range(total_files)),
             avg_public_files |-> Mean(public_files),
             max_public_files |-> Max(Range(public_files)),
             avg_matches |-> Mean(matches),
             max_matches |-> Max(Range(matches)),
             latest_vs_previous |->
                [total_files_change |-> total_files[n] - total_files[n - 1],
                 public_files_change |-> public_files[n] - public_files[n - 1],
                 matches_change |-> matches[n] - matches[n - 1]]],
         risk_distribution |->
            [r \in Range(risk_levels) |->
                Cardinality({i \in 1..n : risk_levels[i] = r})]]

\* generate_trend_report that answers a history of fewer than two scans with a
\* report of zero changes
generate_trend_report_zero_trend(history, trend_file) ==
    LET scans == Get(history, "scans", <<>>)
    IN  IF Len(scans) < 2
        THEN JsonFile([period |-> Len(scans),
                       statistics |->
                          [latest_vs_previous |->
                              [total_files_change |-> 0, public_files_change |-> 0,
                               matches_change |-> 0]]])
        ELSE JsonFile(trend_data(scans))

\* generate_trend_report that counts the calls made for one history in the report
generate_trend_report_counting(history, trend_file) ==
    LET scans == Get(history, "scans", <<>>)
    IN  IF Len(scans) < 2 THEN trend_file
        ELSE JsonFile(With(trend_data(scans), "generation",
                           IF Loads(trend_file)
                           THEN Get(trend_file.json, "generation", 0) + 1 ELSE 1))

\* generate_trend_report: the trend file afterwards
generate_trend_report(history, trend_file) ==
    LET scans == Get(history, "scans", <<>>)
    IN  IF Len(scans) < 2 THEN trend_file ELSE JsonFile(trend_data(scans))

(***************************************************************************)
(* Change detector, after the design's detect(current_fingerprint,         *)
(* history): the verdict of a scan against the stored history              *)
(***************************************************************************)
detect(current_fingerprint, history) ==
    LET scans == Get(history, "scans", <<>>)
    IN  IF scans = <<>> THEN "FirstScan"
        ELSE IF scans[Len(scans)].hash = current_fingerprint THEN "Unchanged"
        ELSE "NewFindings"

(***************************************************************************)
(* Spec: scans and runs of update_scan_history.py on one checkout; a run   *)
(* can be killed between any two of its file operations                    *)
(***************************************************************************)
MaxRuns == 2              \* scans, and runs of update_scan_history, explored

\* results lists a scan may save
RunInputs ==
    {<<>>,
     <<Finding(1, FALSE, 1, 6, [last_modified |-> "t1"])>>,
     <<Finding(2, TRUE, 1, 0, EmptyDict), Finding(1, FALSE, 2, 5, EmptyDict)>>}

\* the history after n earlier runs that each found nothing, at times 1-n .. 0
PriorEntry(t) ==
    history_entry(RawData(<<>>, t),
                  calculate_results_hash(JsonFile(RawData(<<>>, t))), t)
PriorHistory(n) ==
    [created_at |-> 1 - n, last_updated |-> 0, total_scans |-> n,
     scans |-> [i \in 1..n |-> PriorEntry(i - n)]]
PriorRunCounts == {1, HistoryLimit - 1, HistoryLimit}
\* history files not written by this version of the script: more scans than
\* the limit, and a total_scans that is not the number of scans
ForeignHistories ==
    {PriorHistory(HistoryLimit + 2), [PriorHistory(2) EXCEPT !.total_scans = 7]}

Init ==
    /\ PureIdle /\ NotifyIdle /\ SearchIdle
    /\ rawFile = Absent
    /\ \/ /\ histFile = Absent               \* first run on this checkout
          /\ hashFile = Absent /\ trendFile = Absent
       \/ /\ histFile = File(Dump(EmptyDict)) \* a JSON document that is no history
          /\ hashFile = Absent /\ trendFile = Absent
       \/ \E n \in PriorRunCounts :
             /\ histFile = File(Dump(PriorHistory(n)))
             /\ hashFile = File(<<PriorEntry(0).hash>>)
             /\ trendFile = generate_trend_report(PriorHistory(n), Absent)
       \/ \E history \in ForeignHistories :
             /\ histFile = File(Dump(history))
             /\ hashFile = File(<<PriorEntry(0).hash>>)
             /\ trendFile = generate_trend_report(history, Absent)
    /\ pc = "idle" /\ history_data = None /\ hist_before = histFile
    /\ ret = "none" /\ now = 0 /\ runs = 0 /\ verdict = "none"

current_hash == calculate_results_hash(rawFile)

\* github_search.py main: save_raw_data writes the scan's results
Scan(results) ==
    /\ pc = "idle" /\ now < MaxRuns
    /\ now' = now + 1
    /\ rawFile' = JsonFile(RawData(results, now'))
    /\ ret' = "none" /\ verdict' = "none"
    /\ UNCHANGED <<histFile, hashFile, trendFile, pc, history_data, hist_before, runs>>
    /\ UNCHANGED <<pureVars, notifyVars, searchVars>>

\* raw data calculate_results_hash cannot digest: the file removed, a file cut
\* off while save_raw_data wrote it, and a result without file.match_count
IncompleteResult == [repository |-> [full_name |-> 1, private |-> FALSE],
                     file |-> [path |-> 1]]
UnusableRaws ==
    {Absent, Garbage, JsonFile([scan_time |-> "t1", results |-> <<IncompleteResult>>])}

\* the search step leaves no usable raw data
BadRaw(file) ==
    /\ pc = "idle" /\ now < MaxRuns
    /\ file \in UnusableRaws /\ file # rawFile
    /\ now' = now + 1
    /\ rawFile' = file
    /\ ret' = "none" /\ verdict' = "none"
    /\ UNCHANGED <<histFile, hashFile, trendFile, pc, history_data, hist_before, runs>>
    /\ UNCHANGED <<pureVars, notifyVars, searchVars>>

\* raw data without a results key: data.get('results', []) reads it as empty
ScanWithoutResults ==
    /\ pc = "idle" /\ now < MaxRuns
    /\ now' = now + 1
    /\ rawFile' = JsonFile([scan_time |-> now', total_found |-> 0])
    /\ ret' = "none" /\ verdict' = "none"
    /\ UNCHANGED <<histFile, hashFile, trendFile, pc, history_data, hist_before, runs>>
    /\ UNCHANGED <<pureVars, notifyVars, searchVars>>

\* the change detector classifies the scan
Detect ==
    /\ pc = "idle" /\ verdict = "none"
    /\ current_hash # None
    /\ verdict' = detect(current_hash, load_scan_history(histFile, now))
    /\ UNCHANGED <<fileVars, pc, history_data, hist_before, ret, now, runs>>
    /\ UNCHANGED <<pureVars, notifyVars, searchVars>>

\* update_scan_history, lines 50-53: no digest, return False
DigestFails ==
    /\ pc = "idle" /\ runs < MaxRuns
    /\ current_hash = None
    /\ runs' = runs + 1 /\ hist_before' = histFile
    /\ ret' = "False" /\ verdict' = "none"
    /\ UNCHANGED <<fileVars, pc, history_data, now>>
    /\ UNCHANGED <<pureVars, notifyVars, searchVars>>

\* lines 56-57: open(hash_file, 'w') truncates the marker
OpenHashFile ==
    /\ pc = "idle" /\ runs < MaxRuns
    /\ current_hash # None
    /\ runs' = runs + 1 /\ hist_before' = histFile
    /\ hashFile' = EmptyFile
    /\ pc' = "hash_open" /\ ret' = "none" /\ verdict' = "none"
    /\ UNCHANGED <<rawFile, histFile, trendFile, history_data, now>>
    /\ UNCHANGED <<pureVars, notifyVars, searchVars>>

\* line 58 and the end of the with block
WriteHashFile ==
    /\ pc = "hash_open"
    /\ hashFile' = File(<<current_hash>>)
    /\ pc' = "hash_written"
    /\ UNCHANGED <<rawFile, histFile, trendFile, history_data, hist_before,
                   ret, now, runs, verdict>>
    /\ UNCHANGED <<pureVars, notifyVars, searchVars>>

\* lines 83-86: the loaded document has no scans list; the KeyError ends the run
MissingScans ==
    /\ pc = "hash_written"
    /\ "scans" \notin DOMAIN load_scan_history(histFile, now)
    /\ pc' = "idle" /\ ret' = "False"
    /\ UNCHANGED <<fileVars, history_data, hist_before, now, runs, verdict>>
    /\ UNCHANGED <<pureVars, notifyVars, searchVars>>

\* lines 63-97: build the entry, load, append, and open(history_file, 'w'),
\* which truncates the history file
OpenHistoryFile ==
    /\ pc = "hash_written"
    /\ "scans" \in DOMAIN load_scan_history(histFile, now)
    /\ history_data' =
          append_entry(load_scan_history(histFile, now),
                       history_entry(current_data_of(rawFile), current_hash, now),
                       now)
    /\ histFile' = EmptyFile
    /\ pc' = "dumping"
    /\ UNCHANGED <<rawFile, hashFile, trendFile, hist_before, ret, now, runs, verdict>>
    /\ UNCHANGED <<pureVars, notifyVars, searchVars>>

\* line 97: open(history_file, 'w') raises OSError (no permission, read-only
\* checkout); the handler at lines 107-109 returns False
OpenHistoryFails ==
    /\ pc = "hash_written"
    /\ "scans" \in DOMAIN load_scan_history(histFile, now)
    /\ pc' = "idle" /\ ret' = "False"
    /\ UNCHANGED <<fileVars, history_data, hist_before, now, runs, verdict>>
    /\ UNCHANGED <<pureVars, notifyVars, searchVars>>

\* how much of a text is on disk when the writer's buffer has been flushed during
\* the dump: the opening brace, the first half, or all but the closing brace
\* (every other cut leaves, like these, a text that is no JSON document)
FlushPoints(text) == {1, Len(text) \div 2, Len(text) - 1}

\* line 98: json.dump writes the document piece by piece; k pieces are on disk
Flush(k) ==
    /\ pc = "dumping"
    /\ k \in FlushPoints(Dump(history_data))
    /\ k > Len(histFile.text)
    /\ histFile' = File(SubSeq(Dump(history_data), 1, k))
    /\ UNCHANGED <<rawFile, hashFile, trendFile>>
    /\ UNCHANGED <<runVars, pureVars, notifyVars, searchVars>>

\* line 98: a write of json.dump raises OSError (disk full, quota); what was
\* flushed stays in the file; the handler at lines 107-109 returns False
DumpFails ==
    /\ pc = "dumping"
    /\ pc' = "idle" /\ ret' = "False" /\ history_data' = None
    /\ UNCHANGED <<fileVars, hist_before, now, runs, verdict>>
    /\ UNCHANGED <<pureVars, notifyVars, searchVars>>

\* the end of the with block: everything is written
CloseHistoryFile ==
    /\ pc = "dumping"
    /\ histFile' = File(Dump(history_data))
    /\ pc' = "saved"
    /\ UNCHANGED <<rawFile, hashFile, trendFile, history_data, hist_before,
                   ret, now, runs, verdict>>
    /\ UNCHANGED <<pureVars, notifyVars, searchVars>>

\* lines 103-105: generate_trend_report, return True
TrendAndReturn ==
    /\ pc = "saved"
    /\ trendFile' = generate_trend_report(history_data, trendFile)
    /\ pc' = "idle" /\ ret' = "True" /\ history_data' = None
    /\ UNCHANGED <<rawFile, histFile, hashFile, hist_before, now, runs, verdict>>
    /\ UNCHANGED <<pureVars, notifyVars, searchVars>>

\* the process is killed (job timeout, runner shutdown) in the middle of a run
Crash ==
    /\ pc # "idle"
    /\ pc' = "idle" /\ ret' = "killed" /\ history_data' = None
    /\ UNCHANGED <<fileVars, hist_before, now, runs, verdict>>
    /\ UNCHANGED <<pureVars, notifyVars, searchVars>>

MaxText == HistoryLimit + 12     \* no history text is longer

Next ==
    \/ \E results \in RunInputs : Scan(results)
    \/ ScanWithoutResults
    \/ \E file \in UnusableRaws : BadRaw(file)
    \/ Detect
    \/ DigestFails
    \/ OpenHashFile
    \/ WriteHashFile
    \/ MissingScans
    \/ OpenHistoryFile
    \/ OpenHistoryFails
    \/ \E k \in 1..MaxText : Flush(k)
    \/ DumpFails
    \/ CloseHistoryFile
    \/ TrendAndReturn
    \/ Crash

Spec == Init /\ [][Next]_vars

\* what load_scan_history returns now, and what it returned to the current or last run
stored == load_scan_history(histFile, now)
before == load_scan_history(hist_before, now)
\* the entry the current or last run appends
entry_now == history_entry(current_data_of(rawFile), current_hash, now)
\* a file that holds something other than a history document
Unparsable(file) == file # Absent /\ Parse(file.text) = ParseError
Malformed(file) ==
    file # Absent /\ (Unparsable(file) \/ "scans" \notin DOMAIN Parse(file.text))

(* C2: if a run of update_scan_history is interrupted while it writes the
   history file, the next load_scan_history returns the complete history as it
   was before the run or the complete new history, never an empty, partial or
   corrupt document. *)
C2_CrashAtomic ==
    ret = "killed" =>
        \/ Get(stored, "scans", <<>>) = Get(before, "scans", <<>>)
        \/ /\ "scans" \in DOMAIN before
           /\ Get(stored, "scans", <<>>) = append_entry(before, entry_now, now).scans

\* the failing case: killed during the dump, the committed entries are gone
C2_TornWrite ==
    /\ ret = "killed"
    /\ Unparsable(histFile) /\ Len(histFile.text) > 1
    /\ Len(before.scans) = HistoryLimit
    /\ stored.scans = <<>>

(* C3: after successful runs the stored scans list has at most 50 entries, and
   appending to a history of 50 entries leaves exactly 50: the 49 most recent
   old entries, in their order, followed by the new entry. *)
C3_WindowEviction ==
    (pc = "idle" /\ ret = "True") =>
        LET new == stored.scans
            old == before.scans
        IN  /\ Len(new) <= HistoryLimit
            /\ Len(old) = HistoryLimit =>
                  new = SubSeq(old, 2, HistoryLimit) \o <<entry_now>>

C3_Witness ==
    /\ pc = "idle" /\ ret = "True"
    /\ Len(before.scans) = HistoryLimit
    /\ Len(stored.scans) = HistoryLimit
    /\ stored.scans[1] = before.scans[2]
    /\ stored.scans[HistoryLimit - 1] = before.scans[HistoryLimit]
    /\ stored.scans[HistoryLimit].scan_time = now /\ now > 0

(* C5: a scan is classified FirstScan exactly when the history has no entry,
   Unchanged exactly when an entry exists and the latest entry's fingerprint
   equals the current one, NewFindings exactly when an entry exists and the two
   differ; exactly one of the three holds.  Across runs: once a run has stored
   its entry, a scan with the fingerprint just stored is Unchanged and a scan
   with any other fingerprint is NewFindings. *)
C5_VerdictCorrect ==
    /\ verdict # "none" =>
          LET scans == Get(stored, "scans", <<>>)
              same == scans[Len(scans)].hash = current_hash
          IN  /\ verdict \in {"FirstScan", "Unchanged", "NewFindings"}
              /\ verdict = "FirstScan" <=> scans = <<>>
              /\ verdict = "Unchanged" <=> (scans # <<>> /\ same)
              /\ verdict = "NewFindings" <=> (scans # <<>> /\ ~same)
    /\ (pc = "idle" /\ ret = "True") =>
          LET history == stored
          IN  \A results \in RunInputs :
                 LET fp == calculate_results_hash(JsonFile(RawData(results, now + 1)))
                 IN  detect(fp, history) =
                        IF fp = current_hash THEN "Unchanged" ELSE "NewFindings"

\* a second scan finds what the first, already stored, found
C5_Witness ==
    /\ verdict = "Unchanged" /\ now = 2 /\ runs = 1 /\ ret = "none"
    /\ Len(stored.scans) = 2
    /\ stored.scans[1].hash # stored.scans[2].hash

(* C9: when the history file holds something that is no History document
   (unparsable, or JSON without a scans list), update_scan_history discards it,
   returns True and leaves a history of exactly one entry, the current run's. *)
C9_MalformedRecovered ==
    (pc = "idle" /\ ret \in {"True", "False"} /\ current_hash # None
       /\ Malformed(hist_before)) =>
        /\ ret = "True"
        /\ Get(stored, "scans", <<>>) = <<entry_now>>

\* the failing case: a JSON object without scans; the run fails and the file stays
C9_NoScansList ==
    /\ pc = "idle" /\ ret = "False" /\ current_hash # None
    /\ hist_before = File(Dump(EmptyDict))
    /\ histFile = hist_before
    /\ hashFile = File(<<current_hash>>)

(* C10: load_scan_history never fails: for an absent or unparsable file it
   returns a fresh History with scans = [] and total_scans = 0, and a file that
   holds a valid History is returned as that History, unchanged. *)
C10_LoadNeverFails ==
    LET h == stored
    IN  /\ h # ParseError
        /\ (histFile = Absent \/ Unparsable(histFile)) =>
              /\ h.scans = <<>>
              /\ h.total_scans = 0
        /\ pc = "saved" => h = history_data
        /\ (now = 0 /\ runs = 0) =>
              \A n \in PriorRunCounts :
                 histFile = File(Dump(PriorHistory(n))) => h = PriorHistory(n)

\* a torn file from a killed run is read as a fresh history
C10_Witness ==
    /\ pc = "idle" /\ ret = "killed"
    /\ Unparsable(histFile) /\ Len(histFile.text) > 1
    /\ stored = FreshHistory(now)

\* main of update_scan_history.py, lines 285-297: the exit status for a result
main_exit_status(success) == IF success = "True" THEN "0" ELSE "1"

\* raw data that is missing, unparsable, or holds a result without a required field
RawUnusable(file) ==
    \/ ~Loads(file)
    \/ \E i \in 1..Len(Get(file.json, "results", <<>>)) :
          ~HasKeyFields(file.json.results[i])

(* C23: every successful update_scan_history adds exactly one entry to the
   history, placed last, whose hash is the digest of the current raw data;
   every older entry that remains is identical to what it was before the run
   and keeps its relative position. *)
C23_AppendOnly ==
    (pc = "idle" /\ ret = "True") =>
        LET old == before.scans
            new == stored.scans
            kept == Len(new) - 1
        IN  /\ new # <<>>
            /\ new[Len(new)] = entry_now
            /\ new[Len(new)].hash = current_hash /\ current_hash # None
            /\ kept <= Len(old)
            /\ kept = Len(old) \/ Len(new) = HistoryLimit
            /\ SubSeq(new, 1, kept) = SubSeq(old, Len(old) - kept + 1, Len(old))

\* the second run of two: the first run's entry is still first, as it was
C23_Witness ==
    /\ pc = "idle" /\ ret = "True" /\ runs = 2 /\ now = 2
    /\ Len(before.scans) = 1 /\ Len(stored.scans) = 2
    /\ stored.scans[1] = before.scans[1]
    /\ stored.scans[1].scan_time = 1
    /\ stored.scans[2].hash # stored.scans[1].hash

(* C25: after every successful update_scan_history, whatever history file
   was loaded, one with more than 50 entries or a wrong total_scans included,
   the persisted total_scans equals the number of persisted scans and is
   between 1 and 50. *)
C25_TotalScans ==
    (pc = "idle" /\ ret = "True") =>
        /\ stored.total_scans = Len(stored.scans)
        /\ stored.total_scans >= 1
        /\ stored.total_scans <= HistoryLimit

\* a run on a history of 52 entries leaves 50
C25_Witness ==
    /\ pc = "idle" /\ ret = "True"
    /\ Len(before.scans) = HistoryLimit + 2
    /\ before.total_scans = HistoryLimit + 2
    /\ stored.total_scans = HistoryLimit
    /\ Len(stored.scans) = HistoryLimit

(* C11: when calculate_results_hash cannot produce a digest (raw data missing,
   unparsable, or a finding lacking a required field), the run of
   update_scan_history that starts returns False at once, main exits with
   status 1, and the marker, the history file and the trend report stay
   exactly as they were. *)
C11_DigestFailureFatal ==
    [][(pc = "idle" /\ runs' = runs + 1 /\ RawUnusable(rawFile)) =>
          /\ pc' = "idle" /\ ret' = "False"
          /\ main_exit_status(ret') = "1"
          /\ UNCHANGED <<histFile, hashFile, trendFile>>]_vars

\* a second run, on a result without match_count, after a first that stored its entry
C11_Witness ==
    /\ pc = "idle" /\ ret = "False" /\ runs = 2
    /\ Loads(rawFile) /\ RawUnusable(rawFile)
    /\ current_hash = None
    /\ LET scans == Get(stored, "scans", <<>>)
       IN  /\ scans # <<>>
           /\ hashFile = File(<<scans[Len(scans)].hash>>)

\* the last run got its digest and a history with a scans list, and ended with
\* False: writing the history file raised
WriteFailed ==
    /\ pc = "idle" /\ ret = "False"
    /\ current_hash # None
    /\ "scans" \in DOMAIN before

(* C12: when writing the history file fails with an error during
   update_scan_history, the update returns False, main exits with status 1,
   and the next load_scan_history returns the previously committed history
   with all its entries. *)
C12_WriteFailureKeepsHistory ==
    WriteFailed =>
        /\ main_exit_status(ret) = "1"
        /\ Get(stored, "scans", <<>>) = before.scans

\* the failing case: json.dump raises after part of the document is on disk;
\* the 50 committed entries are gone
C12_WriteFailedMidDump ==
    /\ WriteFailed
    /\ Unparsable(histFile) /\ Len(histFile.text) > 1
    /\ Len(before.scans) = HistoryLimit
    /\ stored.scans = <<>>

(* C13: once the persisted history has held at least one entry, every later
   load_scan_history, after any sequence of runs, failed runs and interrupted
   runs, returns a history with at least one entry: between runs, a history
   that was populated when the last run started is still populated. *)
C13_NeverEmptyAgain ==
    (pc = "idle" /\ Get(before, "scans", <<>>) # <<>>) =>
        Get(stored, "scans", <<>>) # <<>>

\* the failing case: the first run stores its entry, the second is killed right
\* after open(history_file, 'w'); the file is empty and loads as a fresh history
C13_PopulatedThenEmpty ==
    /\ pc = "idle" /\ ret = "killed" /\ runs = 2
    /\ LET scans == Get(before, "scans", <<>>)
       IN  Len(scans) = 1 /\ scans[1].scan_time = 1
    /\ histFile = EmptyFile
    /\ stored = FreshHistory(now)

(* C14: whenever a run of update_scan_history has ended, successfully or not,
   and the persisted history is non-empty, last_scan_hash.txt holds exactly
   the hash of the most recent history entry. *)
C14_MarkerConsistent ==
    (pc = "idle" /\ ret \in {"True", "False"}) =>
        LET scans == Get(stored, "scans", <<>>)
        IN  scans # <<>> => hashFile = File(<<scans[Len(scans)].hash>>)

\* the failing case: the marker is written, then opening the history file
\* fails; the marker names a scan the history does not hold
C14_MarkerAhead ==
    /\ pc = "idle" /\ ret = "False"
    /\ histFile = hist_before
    /\ current_hash # None /\ hashFile = File(<<current_hash>>)
    /\ LET scans == Get(stored, "scans", <<>>)
       IN  scans # <<>> /\ scans[Len(scans)].hash # current_hash

\* raw data that loads and holds no result: an empty results list, or no results key
NoResults(file) == Loads(file) /\ Get(file.json, "results", <<>>) = <<>>

(* C15: when raw_data holds an empty results list, or no results key,
   calculate_results_hash returns a digest and not an error, the same one on
   every call (the digest of the empty list, whatever the scan time);
   update_scan_history then goes on past the digest check, and a run that
   succeeds has appended an entry with that digest. *)
C15_EmptyInput ==
    NoResults(rawFile) =>
        /\ current_hash # None
        /\ current_hash = Sha256(<<>>)
        /\ (pc = "idle" /\ ret = "False") => hashFile = File(<<current_hash>>)
        /\ (pc = "idle" /\ ret = "True") =>
              LET scans == stored.scans
              IN  /\ scans # <<>>
                  /\ scans[Len(scans)] = entry_now
                  /\ scans[Len(scans)].hash = Sha256(<<>>)
                  /\ hashFile = File(<<Sha256(<<>>)>>)

\* a successful run on raw data without a results key, after an earlier scan
C15_Witness ==
    /\ pc = "idle" /\ ret = "True" /\ now = 2
    /\ Loads(rawFile) /\ "results" \notin DOMAIN rawFile.json
    /\ Len(stored.scans) = Len(before.scans) + 1
    /\ stored.scans[Len(stored.scans)].hash = Sha256(<<>>)
    /\ stored.scans[Len(stored.scans)].summary.risk_level = "NONE"

(***************************************************************************)
(* SpecTrend: generate_trend_report called, and called again, on a history *)
(***************************************************************************)
MaxScans == 8             \* longest history drawn, one more than the trend window

\* the entry a run at time t stores for a results list
TrendEntry(results, t) ==
    history_entry(RawData(results, t),
                  calculate_results_hash(JsonFile(RawData(results, t))), t)

\* histories of n runs, at times 1..n
TrendHistories ==
    {[created_at |-> 1, last_updated |-> Len(rs), total_scans |-> Len(rs),
      scans |-> [i \in 1..Len(rs) |-> TrendEntry(rs[i], i)]] :
        rs \in SeqsUpTo(RunInputs, MaxScans)}

\* a report left by an earlier history
StaleReport == JsonFile(trend_data(PriorHistory(2).scans))

InitTrend ==
    /\ PureIdle /\ NotifyIdle /\ SearchIdle
    /\ rawFile = Absent /\ histFile = Absent /\ hashFile = Absent
    /\ trendFile \in {Absent, StaleReport}
    /\ history_data \in TrendHistories
    /\ pc = "idle" /\ hist_before = Absent
    /\ ret = "none" /\ now = 0 /\ runs = 0 /\ verdict = "none"

\* generate_trend_report(history_data, history_dir)
GenerateTrend ==
    /\ pc = "idle"
    /\ trendFile' = generate_trend_report(history_data, trendFile)
    /\ pc' = "reported"
    /\ UNCHANGED <<rawFile, histFile, hashFile, history_data, hist_before,
                   ret, now, runs, verdict>>
    /\ UNCHANGED <<pureVars, notifyVars, searchVars>>

\* ... called again on the same history
GenerateTrendAgain ==
    /\ pc = "reported"
    /\ trendFile' = generate_trend_report(history_data, trendFile)
    /\ pc' = "reported_again"
    /\ UNCHANGED <<rawFile, histFile, hashFile, history_data, hist_before,
                   ret, now, runs, verdict>>
    /\ UNCHANGED <<pureVars, notifyVars, searchVars>>

NextTrend ==
    \/ GenerateTrend
    \/ GenerateTrendAgain

SpecTrend == InitTrend /\ [][NextTrend]_vars

\* the most recent K = min(7, n) entries of the history at hand
TrendK == IF Len(history_data.scans) < TrendWindow THEN Len(history_data.scans)
          ELSE TrendWindow
WindowOf(field) ==
    LET n == Len(history_data.scans)
    IN  [i \in 1..TrendK |-> history_data.scans[n - TrendK + i].summary[field]]
Reported == pc # "idle" /\ Len(history_data.scans) >= 2

(* C17: for a history with at least two entries, generate_trend_report takes
   the most recent K = min(7, number of entries) entries and reports, for each
   of total_files, public_files and total_matches, the mean (sum divided by
   K), the maximum and the minimum over that window. *)
C17_TrendStatistics ==
    Reported =>
        LET report == trendFile.json
            stats == report.statistics
            files == WindowOf("total_files")
            public == WindowOf("public_files")
            matches == WindowOf("total_matches")
        IN  /\ report.period = TrendK
            /\ report.trends.total_files = files
            /\ stats.avg_total_files = [sum |-> SumSeq(files), len |-> TrendK]
            /\ stats.max_total_files = Max(Range(files))
            /\ stats.min_total_files = Min(Range(files))
            /\ stats.avg_public_files = [sum |-> SumSeq(public), len |-> TrendK]
            /\ stats.max_public_files = Max(Range(public))
            /\ "min_public_files" \in DOMAIN stats
            /\ stats.min_public_files = Min(Range(public))
            /\ stats.avg_matches = [sum |-> SumSeq(matches), len |-> TrendK]
            /\ stats.max_matches = Max(Range(matches))
            /\ "min_matches" \in DOMAIN stats
            /\ stats.min_matches = Min(Range(matches))

\* the failing case: a report over the last 7 of 8 scans gives mean, maximum and
\* minimum of total_files, and no minimum of public_files or total_matches
C17_MinimaMissing ==
    /\ Reported /\ Len(history_data.scans) = TrendWindow + 1
    /\ trendFile.json.period = TrendWindow
    /\ trendFile.json.statistics.max_total_files = 2
    /\ trendFile.json.statistics.min_total_files = 0
    /\ trendFile.json.statistics.avg_total_files.len = TrendWindow
    /\ DOMAIN trendFile.json.statistics =
          {"avg_total_files", "max_total_files", "min_total_files",
           "avg_public_files", "max_public_files",
           "avg_matches", "max_matches", "latest_vs_previous"}

(* C18: for a history with at least two entries, the latest_vs_previous
   changes that generate_trend_report reports for total_files, public_files
   and total_matches each equal the value in the last entry minus the value in
   the second-to-last entry, signed. *)
C18_TrendDelta ==
    Reported =>
        LET n == Len(history_data.scans)
            last == history_data.scans[n].summary
            previous == history_data.scans[n - 1].summary
            change == trendFile.json.statistics.latest_vs_previous
        IN  /\ change.total_files_change = last.total_files - previous.total_files
            /\ change.public_files_change = last.public_files - previous.public_files
            /\ change.matches_change = last.total_matches - previous.total_matches

\* the last scan found nothing after one that found two files: a negative change
C18_Witness ==
    /\ Reported /\ Len(history_data.scans) > 2
    /\ trendFile.json.statistics.latest_vs_previous =
          [total_files_change |-> -2, public_files_change |-> -1,
           matches_change |-> -5]
    /\ history_data.scans[1].summary.total_files = 1

(* C19: when the history has fewer than two entries, generate_trend_report
   computes no trend and writes no report, with zero changes or otherwise: the
   trend report file is left as it was. *)
C19_InsufficientData ==
    [][(pc = "idle" /\ pc' # "idle" /\ Len(history_data.scans) < 2) =>
          trendFile' = trendFile]_vars

\* one entry, and the report of an earlier history is still there
C19_Witness ==
    /\ pc = "reported" /\ Len(history_data.scans) = 1
    /\ trendFile = StaleReport

(* C20: calling generate_trend_report twice on the same History produces the
   same trend report both times and does not change the History it is given. *)
C20_IdempotentTrend ==
    [][(pc # "idle" \/ pc' # "idle") =>
          /\ history_data' = history_data
          /\ pc = "reported" => trendFile' = trendFile]_vars

\* the second call has rewritten the report of a history longer than the window
C20_Witness ==
    /\ pc = "reported_again" /\ Len(history_data.scans) = MaxScans
    /\ trendFile = JsonFile(trend_data(history_data.scans))
    /\ trendFile # StaleReport

(***************************************************************************)
(* Notifier: send_bark_notification.py                                     *)
(***************************************************************************)
\* bool(x) of a loaded document: None and {} are false
Truthy(data) == data # None /\ data # EmptyDict

\* load_findings_data: both documents, or (None, None)
load_findings_data(check_file, raw_file) ==
    IF Loads(check_file) /\ Loads(raw_file)
    THEN <<check_file.json, raw_file.json>>
    ELSE <<None, None>>

\* main, line 468, never skipping
skips_never(has_new_findings, force) == FALSE

\* main, line 468: not has_new_findings and not force_notify
skips(has_new_findings, force) == ~has_new_findings /\ ~force

\* create_notification_content: the title's kind and what the message holds
\* (the risk level line; the statistics and file lists are left out)
notification_title(analysis) ==
    IF Get(analysis, "is_first_scan", FALSE) THEN "first_scan"   \* no alarm sign
    ELSE IF Get(analysis, "total_files", 0) > 0 THEN "alert"      \* starts with the alarm sign
    ELSE "clean"
notification_message(analysis) ==
    [risk_level |-> Get(analysis, "risk_level", "UNKNOWN")]
\* datetime.fromisoformat(analysis.get('scan_time', '')) raises without a scan_time
content_raises(check_data) ==
    "scan_time" \notin DOMAIN Get(check_data, "analysis", EmptyDict)

\* send_notification, lines 304-315: level and sound from title and message
level_and_sound(title, message) ==
    IF message.risk_level = "CRITICAL" \/ title = "alert"
    THEN [level |-> "critical", sound |-> "alarm"]
    ELSE IF message.risk_level = "HIGH"
    THEN [level |-> "active", sound |-> "multiwayinvitation"]
    ELSE IF message.risk_level = "MEDIUM"
    THEN [level |-> "active", sound |-> "newmail"]
    ELSE [level |-> "active", sound |-> "birdsong"]

PostOutcomes ==
    {"accepted",          \* status 200, JSON body with code 200
     "non_json",          \* status 200, body is not JSON: taken as sent
     "refused",           \* status 200, JSON object with another code
     "not_an_object",     \* status 200, JSON that is no object: result.get raises
     "http_error",        \* another status
     "timeout", "network_error"}
GetOutcomes == {"ok", "http_error", "exception"}

\* send_notification that tries the fallback after every failed POST
requests_of_always_falling_back(about, title, message, post, get) ==
    LET ls == level_and_sound(title, message)
        req(method, response) ==
            [method |-> method, about |-> about, title |-> title,
             level |-> ls.level, sound |-> ls.sound, response |-> response]
    IN  IF post \notin {"accepted", "non_json"}
        THEN <<req("POST", post), req("GET", get)>>
        ELSE <<req("POST", post)>>

\* send_notification and _send_notification_fallback: the requests made, each
\* with the response it got
requests_of(about, title, message, post, get) ==
    LET ls == level_and_sound(title, message)
        req(method, response) ==
            [method |-> method, about |-> about, title |-> title,
             level |-> ls.level, sound |-> ls.sound, response |-> response]
    IN  IF post \in {"refused", "http_error"}
        THEN <<req("POST", post), req("GET", get)>>
        ELSE <<req("POST", post)>>
\* ... and what send_notification returns
send_succeeds(post, get) ==
    \/ post \in {"accepted", "non_json"}
    \/ post \in {"refused", "http_error"} /\ get = "ok"

(***************************************************************************)
(* SpecNotify: one run of the notifier's main on drawn inputs              *)
(***************************************************************************)
Analyses ==
    {[is_first_scan |-> TRUE, total_files |-> 1, public_files |-> 1,
      risk_level |-> "MEDIUM", repositories |-> {1}, scan_time |-> 1],
     [is_first_scan |-> FALSE, total_files |-> 2, public_files |-> 1,
      risk_level |-> "CRITICAL", repositories |-> {1, 2}, scan_time |-> 1],
     [is_first_scan |-> FALSE, total_files |-> 0, public_files |-> 0,
      risk_level |-> "NONE", repositories |-> {}, scan_time |-> 1],
     [is_first_scan |-> FALSE, total_files |-> 1, public_files |-> 1,
      risk_level |-> "HIGH", repositories |-> {1}, scan_time |-> 1],
     [is_first_scan |-> FALSE, total_files |-> 1, public_files |-> 0,
      risk_level |-> "LOW", repositories |-> {2}]}           \* no scan_time

CheckFiles ==
    {Absent, Garbage, JsonFile(EmptyDict)}
    \cup {JsonFile([has_new_findings |-> b, analysis |-> a]) :
             b \in BOOLEAN, a \in Analyses}
    \cup {JsonFile([analysis |-> a]) : a \in Analyses}

RawFiles ==
    {Absent, Garbage, JsonFile(EmptyDict)}
    \cup {JsonFile(RawData(results, 1)) : results \in RunInputs}

InitNotify ==
    /\ PureIdle /\ RunIdle
    /\ histFile = Absent /\ hashFile = Absent /\ trendFile = Absent
    /\ rawFile \in RawFiles
    /\ checkFile \in CheckFiles
    /\ bark_key \in BOOLEAN
    /\ force_notify \in BOOLEAN
    /\ requests = <<>> /\ exit_code = "none" /\ notification_log = Absent
    /\ latest_files = <<>>
    /\ SearchIdle

Exit(code) ==
    /\ exit_code' = code
    /\ UNCHANGED <<bark_key, force_notify, checkFile, latest_files>>
    /\ UNCHANGED <<pureVars, fileVars, runVars, searchVars>>

check_data == load_findings_data(checkFile, rawFile)[1]
raw_data == load_findings_data(checkFile, rawFile)[2]
\* a result without the field read as one that reports new findings
has_new_findings_assumed == Get(check_data, "has_new_findings", TRUE)
\* line 464: check_data.get('has_new_findings', False)
has_new_findings == Get(check_data, "has_new_findings", FALSE)
TestRun == force_notify /\ checkFile = Absent

\* BarkNotifier() raises without BARK_KEY; main exits 1
MainWithoutKey ==
    /\ exit_code = "none" /\ ~bark_key
    /\ requests' = <<>> /\ notification_log' = notification_log
    /\ Exit("1")

\* lines 451-455: forced and no check file: the test notification
MainSendsTest(post, get) ==
    /\ exit_code = "none" /\ bark_key /\ TestRun
    /\ requests' = requests_of("test", "test", [risk_level |-> "UNKNOWN"], post, get)
    /\ notification_log' = notification_log
    /\ Exit(IF send_succeeds(post, get) THEN "0" ELSE "1")

\* lines 458-461: a document is missing, unparsable or empty
MainCannotLoad ==
    /\ exit_code = "none" /\ bark_key /\ ~TestRun
    /\ ~Truthy(check_data) \/ ~Truthy(raw_data)
    /\ requests' = <<>> /\ notification_log' = notification_log
    /\ Exit("1")

\* lines 464-470: nothing new and not forced
MainSkips ==
    /\ exit_code = "none" /\ bark_key /\ ~TestRun
    /\ Truthy(check_data) /\ Truthy(raw_data)
    /\ skips(has_new_findings, force_notify)
    /\ requests' = <<>> /\ notification_log' = notification_log
    /\ Exit("0")

\* line 473: create_notification_content raises; main's handler exits 1
MainContentFails ==
    /\ exit_code = "none" /\ bark_key /\ ~TestRun
    /\ Truthy(check_data) /\ Truthy(raw_data)
    /\ ~skips(has_new_findings, force_notify)
    /\ content_raises(check_data)
    /\ requests' = <<>> /\ notification_log' = notification_log
    /\ Exit("1")

\* lines 473-499: build, send, log on success
MainSendsFindings(post, get) ==
    /\ exit_code = "none" /\ bark_key /\ ~TestRun
    /\ Truthy(check_data) /\ Truthy(raw_data)
    /\ ~skips(has_new_findings, force_notify)
    /\ ~content_raises(check_data)
    /\ LET analysis == check_data.analysis
       IN  /\ requests' = requests_of("findings", notification_title(analysis),
                                      notification_message(analysis), post, get)
           /\ notification_log' =
                 IF send_succeeds(post, get)
                 THEN JsonFile([sent_at |-> now,
                                title |-> notification_title(analysis),
                                total_files |-> Get(analysis, "total_files", 0),
                                public_files |-> Get(analysis, "public_files", 0),
                                risk_level |-> Get(analysis, "risk_level", "UNKNOWN"),
                                repositories_count |->
                                    Cardinality(Get(analysis, "repositories", {})),
                                was_forced |-> force_notify])
                 ELSE notification_log
    /\ Exit(IF send_succeeds(post, get) THEN "0" ELSE "1")

NextNotify ==
    \/ MainWithoutKey
    \/ \E post \in PostOutcomes, get \in GetOutcomes : MainSendsTest(post, get)
    \/ MainCannotLoad
    \/ MainSkips
    \/ MainContentFails
    \/ \E post \in PostOutcomes, get \in GetOutcomes : MainSendsFindings(post, get)

SpecNotify == InitNotify /\ [][NextNotify]_vars

FindingsNotified == \E i \in DOMAIN requests : requests[i].about = "findings"
ResultSaysNew ==
    /\ Loads(checkFile)
    /\ Get(checkFile.json, "has_new_findings", FALSE) = TRUE

(* C6 as claimed: main sends a notification about findings only when the
   change-detection result says there are new findings; no other input of the
   run makes it send one. *)
C6_OnlyNewFindings == FindingsNotified => ResultSaysNew

(* C6 as amended: main sends a notification about findings only when the
   change-detection result says there are new findings or the run is forced
   (INPUT_FORCE_NOTIFY is 'true'); an unforced run whose result does not say so
   makes no request at all. *)
C6_NewFindingsOrForced ==
    /\ FindingsNotified => (ResultSaysNew \/ force_notify)
    /\ (exit_code # "none" /\ ~force_notify /\ ~ResultSaysNew) => requests = <<>>

C6_Witness ==
    /\ FindingsNotified /\ ResultSaysNew /\ ~force_notify
    /\ exit_code = "0" /\ Len(requests) = 2

\* the send as the requests show it: the POST accepted or the fallback GET ok
Sent ==
    /\ requests # <<>>
    /\ \/ requests[1].response \in {"accepted", "non_json"}
       \/ Len(requests) = 2 /\ requests[2].response = "ok"

(* C28: send_notification makes one POST; the fallback GET is attempted at
   most once and only after the POST got a response that was not accepted
   (another status than 200, or a JSON body whose code is not 200), never
   after a timeout or network error; send_notification returns True exactly
   when the POST was accepted or the fallback GET returned status 200, and
   main writes the notification log and exits 0 only in that case. *)
C28_SendProtocol ==
    (exit_code # "none" /\ requests # <<>>) =>
        /\ requests[1].method = "POST"
        /\ Len(requests) <= 2
        /\ Len(requests) = 2 =>
              /\ requests[2].method = "GET"
              /\ requests[1].response \in {"refused", "http_error"}
        /\ requests[1].response \in {"timeout", "network_error"} => Len(requests) = 1
        /\ exit_code = "0" <=> Sent
        /\ notification_log # Absent => Sent
        /\ (Sent /\ requests[1].about = "findings") => notification_log # Absent

\* the POST answered with an error status, the fallback GET accepted: the log is
\* written and main exits 0
C28_Witness ==
    /\ exit_code = "0" /\ Len(requests) = 2
    /\ requests[1].about = "findings"
    /\ requests[1].response = "http_error" /\ requests[2].response = "ok"
    /\ notification_log # Absent

\* the sound the claimed rule gives a risk level
SoundOfRisk(risk_level) ==
    CASE risk_level = "CRITICAL" -> "alarm"
      [] risk_level = "HIGH" -> "multiwayinvitation"
      [] risk_level = "MEDIUM" -> "newmail"
      [] OTHER -> "birdsong"

(* C27: for a notification built by create_notification_content,
   send_notification chooses level critical with sound alarm only when the
   scan's risk level is CRITICAL, sound multiwayinvitation when it is HIGH,
   newmail when it is MEDIUM, and birdsong otherwise. *)
C27_SeverityFollowsRisk ==
    \A i \in DOMAIN requests :
        requests[i].about = "findings" =>
            LET risk_level == Get(checkFile.json.analysis, "risk_level", "UNKNOWN")
            IN  /\ requests[i].sound = SoundOfRisk(risk_level)
                /\ requests[i].level = "critical" <=> risk_level = "CRITICAL"

\* a scan after the first with one file and risk level HIGH: the title carries
\* the alarm sign, so the request is critical with sound alarm
C27_HighSentAsCritical ==
    /\ exit_code = "0" /\ requests # <<>>
    /\ requests[1].about = "findings" /\ requests[1].title = "alert"
    /\ checkFile.json.analysis.risk_level = "HIGH"
    /\ requests[1].level = "critical" /\ requests[1].sound = "alarm"

\* a document that is missing, unparsable or empty
CannotLoad(file) == ~Loads(file) \/ file.json = EmptyDict

(* C22: when notification is not forced and the change-detection result or
   the raw data cannot be loaded (file missing, unparsable or empty), main
   sends no notification and exits with a non-zero status; when the result
   loads but has no has_new_findings field, it is treated as unchanged and no
   notification is sent. *)
C22_BrokenScanSilent ==
    (exit_code # "none" /\ ~force_notify) =>
        /\ (CannotLoad(checkFile) \/ CannotLoad(rawFile)) =>
              requests = <<>> /\ exit_code = "1"
        /\ (~CannotLoad(checkFile) /\ ~CannotLoad(rawFile)
              /\ "has_new_findings" \notin DOMAIN checkFile.json) =>
              /\ requests = <<>>
              /\ notification_log = Absent
              /\ bark_key => exit_code = "0"

\* a result for a CRITICAL scan that lacks the field: nothing is sent
C22_Witness ==
    /\ exit_code = "0" /\ ~force_notify /\ bark_key
    /\ Loads(checkFile) /\ Loads(rawFile)
    /\ "has_new_findings" \notin DOMAIN checkFile.json
    /\ "analysis" \in DOMAIN checkFile.json
    /\ checkFile.json.analysis.risk_level = "CRITICAL"
    /\ requests = <<>>

(***************************************************************************)
(* Latest files: BarkNotifier._get_latest_files_info                       *)
(***************************************************************************)
BeijingOffset == 8        \* hours Beijing time is ahead of UTC
LatestShown == 3          \* files listed in a notification

\* an ISO timestamp: the clock reading it shows, in hours, and its UTC offset;
\* without an offset the text is naive
Stamp(local, offset) == [local |-> local, offset |-> offset]
NaiveStamp(local) == [local |-> local]
EmptyString == [empty |-> TRUE]      \* '' where a timestamp is expected

\* parser.parse and a conversion that keeps the clock reading and ignores the offset
beijing_time_keeping_clock(last_modified) ==
    [instant |-> last_modified.local,
     local |-> last_modified.local]

\* parser.parse and _calculate_time_diff: the aware Beijing datetime (a naive
\* time is taken as UTC); datetimes compare by their instant
beijing_time(last_modified) ==
    LET instant == last_modified.local - Get(last_modified, "offset", 0)
    IN  [instant |-> instant, local |-> instant + BeijingOffset]

\* last_commit.get('last_modified') is truthy: a timestamp, not None and not ''
last_modified_of(result) ==
    Get(Get(Get(result, "time_info", EmptyDict), "last_commit", EmptyDict),
        "last_modified", None)
HasTime(result) == "local" \in DOMAIN last_modified_of(result)

file_info(result) ==
    [repo |-> result.repository.full_name,
     file |-> result.file.path,
     matches |-> result.file.match_count,
     last_modified |-> beijing_time(last_modified_of(result)),
     is_public |-> ~result.repository.private]

RECURSIVE files_with_time(_)
files_with_time(results) ==
    IF results = <<>> THEN <<>>
    ELSE IF HasTime(results[1])
    THEN <<file_info(results[1])>> \o files_with_time(Tail(results))
    ELSE files_with_time(Tail(results))

\* list.sort(key=last_modified, reverse=True) is stable: an element goes after
\* every element that is not older
InsertNewestFirst(x, sorted) ==
    LET n == Cardinality({i \in 1..Len(sorted) :
                             sorted[i].last_modified.instant >= x.last_modified.instant})
    IN  SubSeq(sorted, 1, n) \o <<x>> \o SubSeq(sorted, n + 1, Len(sorted))

RECURSIVE SortNewestFirst(_)
SortNewestFirst(files) ==
    IF files = <<>> THEN <<>>
    ELSE InsertNewestFirst(files[Len(files)],
                           SortNewestFirst(SubSeq(files, 1, Len(files) - 1)))

\* files[:n]
FirstN(files, n) == IF Len(files) > n THEN SubSeq(files, 1, n) ELSE files

\* _get_latest_files_info: the files listed, before they are formatted as text
get_latest_files_info(raw) ==
    LET results == Get(raw, "results", <<>>)
    IN  IF results = <<>> THEN <<>>
        ELSE FirstN(SortNewestFirst(files_with_time(results)), LatestShown)

(***************************************************************************)
(* SpecLatest: _get_latest_files_info applied to a results list            *)
(***************************************************************************)
MaxListed == 4            \* longest results list drawn, one more than listed

LatestCommits ==
    {EmptyDict, [last_modified |-> EmptyString],
     [last_modified |-> Stamp(1, 0)], [last_modified |-> Stamp(2, 0)],
     [last_modified |-> Stamp(4, 2)], [last_modified |-> Stamp(5, 2)],
     [last_modified |-> NaiveStamp(3)]}

\* results whose file path is their position in the list
LatestInputs ==
    {[i \in 1..Len(lcs) |-> Finding(1, i = 1, i, 1, lcs[i])] :
        lcs \in SeqsUpTo(LatestCommits, MaxListed)}

InitLatest ==
    /\ findings \in LatestInputs
    /\ other = <<>> /\ edit = "none" /\ digests = <<>> /\ summaries = <<>>
    /\ rawFile = JsonFile(RawData(findings, 1))
    /\ histFile = Absent /\ hashFile = Absent /\ trendFile = Absent
    /\ RunIdle /\ NotifyIdle /\ SearchIdle

GetLatestFiles ==
    /\ edit = "none"
    /\ latest_files' = get_latest_files_info(rawFile.json)
    /\ edit' = "listed"
    /\ UNCHANGED <<findings, other, digests, summaries>>
    /\ UNCHANGED <<bark_key, force_notify, checkFile, requests, exit_code,
                   notification_log>>
    /\ UNCHANGED <<fileVars, runVars, searchVars>>

NextLatest == GetLatestFiles

SpecLatest == InitLatest /\ [][NextLatest]_vars

\* when a finding was modified, whatever offset its timestamp is written with
InstantOf(result) ==
    last_modified_of(result).local - Get(last_modified_of(result), "offset", 0)
Listed == {latest_files[k].file : k \in 1..Len(latest_files)}
Timed == {i \in 1..Len(findings) : HasTime(findings[i])}

(* C21: _get_latest_files_info returns at most 3 findings; every one of them
   has a modification time; no finding left out that has a modification time
   is more recently modified than a returned one; and the returned findings
   are listed from most to least recently modified. *)
C21_LatestFiles ==
    edit = "listed" =>
        /\ Len(latest_files) <= LatestShown
        /\ Cardinality(Listed) = Len(latest_files)
        /\ Listed \subseteq Timed
        /\ Cardinality(Timed) >= LatestShown => Len(latest_files) = LatestShown
        /\ \A i \in Timed \ Listed : \A j \in Listed :
              InstantOf(findings[i]) <= InstantOf(findings[j])
        /\ \A k \in 1..(Len(latest_files) - 1) :
              InstantOf(findings[latest_files[k].file]) >=
                 InstantOf(findings[latest_files[k + 1].file])

\* four timed findings with different offsets: the one left out is the oldest,
\* though its timestamp does not show the smallest clock reading
C21_Witness ==
    /\ edit = "listed" /\ Len(findings) = MaxListed
    /\ Cardinality(Timed) = MaxListed /\ Len(latest_files) = LatestShown
    /\ \E i \in Timed \ Listed : \E j \in Listed :
          /\ InstantOf(findings[i]) < InstantOf(findings[j])
          /\ last_modified_of(findings[i]).local > last_modified_of(findings[j]).local


(***************************************************************************)
(* Search: GitHubSearcher.search_github_code in github_search.py           *)
(***************************************************************************)
PerPage == 30        \* per_page, line 66
MaxResults == 2      \* small values of MAX_RESULTS
MaxPages == 2        \* pages of the result set that hold items
TotalCount == 40     \* total_count as the API reports it

\* line 69, a loop that goes on whatever was collected
continues_always(collected, limit) == TRUE

\* line 69: while len(results) < self.max_results
continues(collected, limit) == Len(collected) < limit

\* line 78, asking for a full page every time
requested_per_page_full(collected, limit) == PerPage

\* line 78: min(per_page, self.max_results - len(results))
requested_per_page(collected, limit) ==
    IF PerPage <= limit - Len(collected) THEN PerPage ELSE limit - Len(collected)

\* lines 82-85, every failed request tried again
retries_every_failure(status_code) == status_code # "200"

\* lines 82-85: only a 403 is waited out and tried again
retries(status_code) == status_code = "403"

\* the sizes of a page the API answers with: none, one, or as many as asked for;
\* a page behind the end of the result set is empty
ItemCounts(asked, page_number) ==
    IF page_number > MaxPages THEN {0} ELSE {0, 1, asked}

\* the values of MAX_RESULTS looked at: small ones and one beyond a page
SearchLimits == (0..MaxResults) \cup {PerPage + 1}

InitSearch ==
    /\ PureIdle /\ FilesIdle /\ RunIdle /\ NotifyIdle
    /\ max_results \in SearchLimits
    /\ search_pc = "while" /\ search_results = <<>> /\ page = 1
    /\ items = 0 /\ total_found = 0
    /\ status = "none" /\ rate_limited = FALSE

Elsewhere == UNCHANGED <<pureVars, fileVars, runVars, notifyVars>>

\* line 69: the loop test
LoopTest ==
    /\ search_pc = "while"
    /\ search_pc' = IF continues(search_results, max_results)
                    THEN "request" ELSE "returned"
    /\ UNCHANGED <<max_results, search_results, page, items, total_found, status,
                   rate_limited>>
    /\ Elsewhere

\* lines 80-89: a response with another status than 200: a 403 is waited out
\* and the loop continues, any other ends the loop
RequestRefused(status_code) ==
    /\ search_pc = "request"
    /\ status_code # "200"
    /\ status' = status_code
    /\ rate_limited' = (rate_limited \/ status_code = "403")
    /\ search_pc' = IF retries(status_code) THEN "while" ELSE "returned"
    /\ UNCHANGED <<max_results, search_results, page, items, total_found>>
    /\ Elsewhere

\* lines 80, 91 and 109-111: the request or response.json() raises
RequestRaises ==
    /\ search_pc = "request"
    /\ status' = "exception"
    /\ search_pc' = "returned"
    /\ UNCHANGED <<max_results, search_results, page, items, total_found,
                   rate_limited>>
    /\ Elsewhere

\* lines 91-97: a page of count items arrives; an empty one ends the loop
Receive(count) ==
    /\ search_pc = "request"
    /\ count \in ItemCounts(requested_per_page(search_results, max_results), page)
    /\ status' = "200"
    /\ total_found' = TotalCount
    /\ items' = count
    /\ search_pc' = IF count = 0 THEN "returned" ELSE "items"
    /\ UNCHANGED <<max_results, search_results, page, rate_limited>>
    /\ Elsewhere

\* lines 99-102: one item; get_file_details returns a dict or None
AppendItem(detailed) ==
    /\ search_pc = "items" /\ items > 0
    /\ items' = items - 1
    /\ search_results' = IF detailed THEN Append(search_results, page)
                         ELSE search_results
    /\ UNCHANGED <<search_pc, max_results, page, total_found, status, rate_limited>>
    /\ Elsewhere

\* lines 104-105: the page is done
NextPage ==
    /\ search_pc = "items" /\ items = 0
    /\ page' = page + 1
    /\ search_pc' = "while"
    /\ UNCHANGED <<max_results, search_results, items, total_found, status,
                   rate_limited>>
    /\ Elsewhere

Answered ==
    \/ \E status_code \in {"500", "422"} : RequestRefused(status_code)
    \/ RequestRaises
    \/ \E count \in 0..PerPage : Receive(count)

NextSearch ==
    \/ LoopTest
    \/ \E status_code \in {"403", "500", "422"} : RequestRefused(status_code)
    \/ RequestRaises
    \/ \E count \in 0..PerPage : Receive(count)
    \/ \E detailed \in BOOLEAN : AppendItem(detailed)
    \/ NextPage

SpecSearch == InitSearch /\ [][NextSearch]_vars

(* C29: at every point of search_github_code, the API returning no more
   items per page than the per_page value asked for, the number of collected
   results is at most max_results, and the list returned has at most
   max_results findings. *)
C29_ResultCap ==
    search_pc # "idle" =>
        /\ Len(search_results) <= max_results
        /\ Len(search_results) + items <= max_results

\* a search with MAX_RESULTS beyond one page that returns full: a whole first
\* page of 30 and one more file from the second
C29_Witness ==
    /\ search_pc = "returned"
    /\ max_results = PerPage + 1
    /\ Len(search_results) = max_results
    /\ search_results[PerPage] = 1 /\ search_results[PerPage + 1] = 2


(***************************************************************************)
(* SpecSearchFair: the search under an API that does not answer 403        *)
(* forever.  The loop runs on its own (weak fairness of its steps); a      *)
(* request that is made again and again is eventually answered with        *)
(* something else than 403 (strong fairness of Answered).  The result set  *)
(* is finite: pages behind MaxPages are empty.                             *)
(***************************************************************************)
SpecSearchFair ==
    /\ InitSearch /\ [][NextSearch]_vars
    /\ WF_vars(NextSearch)
    /\ SF_vars(Answered)

(* C30: search_github_code eventually returns for every sequence of API
   responses in which the API does not answer 403 forever and the result set
   is finite (some page is eventually empty or a non-200 status is returned);
   a 403 response is retried on the same page, without advancing the page
   number or losing results already collected. *)
C30_SearchTerminates ==
    /\ <>(search_pc = "returned")
    /\ [][(search_pc = "request" /\ status' = "403") =>
             /\ search_pc' = "while"
             /\ page' = page
             /\ search_results' = search_results
             /\ continues(search_results', max_results)]_vars

\* a search that was answered 403 at some request and returned files of both pages
C30_Witness ==
    /\ search_pc = "returned"
    /\ rate_limited
    /\ search_results = <<1, 2>>
    /\ status = "200" /\ page = MaxPages + 1

====
